---- MODULE Spec2Model ----
(***************************************************************************)
(* AmbientMonitor.py: one asyncio event loop runs the coroutine main, which *)
(* connects a BleakClient, turns the lights on, then writes the dominant    *)
(* screen colour in a loop.  A SIGINT handler schedules on_exit as a task   *)
(* and raises SystemExit; main's finally block also awaits on_exit.         *)
(*                                                                          *)
(* Every call of the BLE library (connect, get_services, write_gatt_char,   *)
(* disconnect) is an await: the call is issued in one step and returns or   *)
(* raises in a later one, with the outcome chosen nondeterministically.     *)
(* Synchronous code between two awaits is one step, except the blocking     *)
(* calls time.sleep and get_dominant_colour, during which a signal can be   *)
(* delivered to the running coroutine.                                      *)
(***************************************************************************)
EXTENDS Integers, Sequences, FiniteSets, TLC

\* number of iterations of the while True loop that are explored
MaxIter == 2

\* values of the module global characteristic_uuid: the configured UUID,
\* the empty string, and None
UuidSet == "0000fff3"
UuidEmpty == ""
UuidNone == "None"
Uuids == {UuidSet, UuidEmpty, UuidNone}

VARIABLES
  characteristic_uuid, \* the module global
  pc,          \* position of the coroutine main
  client,      \* main's local variable client: "unbound" or "bound"
  conn,        \* the BleakClient's connection: "none", "open", "closed"
  exc,         \* exception in flight in main: "none", "Exception", "SystemExit"
  tpc,         \* position of the on_exit task created by sigterm_handler
  tasks,       \* number of on_exit tasks created by sigterm_handler
  log,         \* every BLE call, return and raise, in order
  iter,        \* colour writes issued so far
  proc,        \* "running" or "exited"
  status,      \* process exit status (-1 while running)
  result,      \* how main ended: "none", "returned", "raised", "SystemExit",
               \* or "destroyed" when the process exits with main suspended
  signals,     \* SIGINTs delivered
  sigAt,       \* pc of main when the first SIGINT was delivered
  dominant_color, \* the (r, g, b) that fast_colorthief returns
  frame        \* the bytes of the last GATT write

vars == <<characteristic_uuid, pc, client, conn, exc, tpc, tasks, log, iter,
          proc, status, result, signals, sigAt, dominant_color, frame>>

Ev(op, by, ph) == [op |-> op, by |-> by, ph |-> ph]

\* positions where main is suspended in an await of a BLE call
AwaitPcs == {"await_connect", "await_services", "chars_await_off",
             "chars_await_disc", "await_on", "await_colour",
             "fin_await_off", "fin_await_disc"}

\* positions where main is inside a blocking synchronous call
BlockingPcs == {"sleep_settle", "capture", "sleep_loop"}

\* positions of main inside the finally block
FinallyPcs == {"finally", "fin_await_off", "fin_await_disc"}

Init ==
  /\ characteristic_uuid \in Uuids
  /\ pc = "start"
  /\ client = "unbound"
  /\ conn = "none"
  /\ exc = "none"
  /\ tpc = "none"
  /\ tasks = 0
  /\ log = <<>>
  /\ iter = 0
  /\ proc = "running"
  /\ status = -1
  /\ result = "none"
  /\ signals = 0
  /\ sigAt = "none"
  /\ dominant_color = <<0, 0, 0>>
  /\ frame = <<>>

\* `if not characteristic_uuid` (line 129): true for "" and for None
UuidUnknown == characteristic_uuid \in {UuidEmpty, UuidNone}

\* disconnect_client up to its first await: toggle_off's write when the
\* uuid is not None, else client.disconnect()
disconnect_client_first(by) ==
  IF characteristic_uuid # UuidNone
    THEN Ev("OFF", by, "call")
    ELSE Ev("disconnect", by, "call")

disconnect_client_next ==
  IF characteristic_uuid # UuidNone THEN "off" ELSE "disc"

\* main raises: the exception reaches `except Exception` and then finally
Raise ==
  /\ pc' = "handler"
  /\ exc' = "Exception"

\* main, lines 120-124 and init_client: register the handler, build the
\* client, await client.connect()
main_init_client ==
  /\ proc = "running" /\ pc = "start"
  /\ pc' = "await_connect"
  /\ log' = Append(log, Ev("connect", "main", "call"))
  /\ UNCHANGED <<characteristic_uuid, dominant_color, frame, client, conn, exc, tpc, tasks, iter,
                 proc, status, result, signals, sigAt>>

\* client.connect() returns or raises; on success line 124 binds client and
\* line 129 chooses between discovery and the settle delay
init_client_return(ok) ==
  /\ proc = "running" /\ pc = "await_connect"
  /\ IF ok
       THEN /\ client' = "bound"
            /\ conn' = "open"
            /\ exc' = exc
            /\ IF UuidUnknown
                 THEN /\ pc' = "await_services"
                      /\ log' = log \o <<Ev("connect", "main", "ok"),
                                         Ev("discover", "main", "call")>>
                 ELSE /\ pc' = "sleep_settle"
                      /\ log' = Append(log, Ev("connect", "main", "ok"))
       ELSE /\ Raise
            /\ log' = Append(log, Ev("connect", "main", "err"))
            /\ UNCHANGED <<client, conn>>
  /\ UNCHANGED <<characteristic_uuid, dominant_color, frame, tpc, tasks, iter, proc, status, result,
                 signals, sigAt>>

\* get_characteristics, lines 45-52: client.get_services() returns or
\* raises; after the prints it awaits disconnect_client(client)
get_characteristics_services(ok) ==
  /\ proc = "running" /\ pc = "await_services"
  /\ IF ok
       THEN /\ pc' = "chars_await_" \o disconnect_client_next
            /\ log' = log \o <<Ev("discover", "main", "ok"),
                               disconnect_client_first("main")>>
            /\ exc' = exc
       ELSE /\ Raise
            /\ log' = Append(log, Ev("discover", "main", "err"))
  /\ UNCHANGED <<characteristic_uuid, dominant_color, frame, client, conn, tpc, tasks, iter, proc,
                 status, result, signals, sigAt>>

\* disconnect_client called from get_characteristics, line 37: toggle_off's
\* write returns (then line 38 calls client.disconnect()) or raises
get_characteristics_off(ok) ==
  /\ proc = "running" /\ pc = "chars_await_off"
  /\ IF ok
       THEN /\ pc' = "chars_await_disc"
            /\ log' = log \o <<Ev("OFF", "main", "ok"),
                               Ev("disconnect", "main", "call")>>
            /\ exc' = exc
       ELSE /\ Raise
            /\ log' = Append(log, Ev("OFF", "main", "err"))
  /\ UNCHANGED <<characteristic_uuid, dominant_color, frame, client, conn, tpc, tasks, iter, proc,
                 status, result, signals, sigAt>>

\* disconnect_client called from get_characteristics, line 38:
\* client.disconnect() returns, and main goes on to line 134, or raises
get_characteristics_disconnect(ok) ==
  /\ proc = "running" /\ pc = "chars_await_disc"
  /\ IF ok
       THEN /\ pc' = "sleep_settle"
            /\ conn' = "closed"
            /\ log' = Append(log, Ev("disconnect", "main", "ok"))
            /\ exc' = exc
       ELSE /\ Raise
            /\ conn' = conn
            /\ log' = Append(log, Ev("disconnect", "main", "err"))
  /\ UNCHANGED <<characteristic_uuid, dominant_color, frame, client, tpc, tasks, iter, proc, status,
                 result, signals, sigAt>>

\* a startup without the settle delay: the ON write is issued at once
main_settle_skipped ==
  /\ proc = "running" /\ pc = "sleep_settle"
  /\ pc' = "await_on"
  /\ log' = Append(log, Ev("ON", "main", "call"))
  /\ UNCHANGED <<characteristic_uuid, dominant_color, frame, client, conn, exc, tpc, tasks, iter,
                 proc, status, result, signals, sigAt>>

\* main, lines 134-136: time.sleep(3) ends, toggle_on issues the ON write
main_settle ==
  /\ proc = "running" /\ pc = "sleep_settle"
  /\ pc' = "await_on"
  /\ log' = log \o <<Ev("settle", "main", "ok"), Ev("ON", "main", "call")>>
  /\ UNCHANGED <<characteristic_uuid, dominant_color, frame, client, conn, exc, tpc, tasks, iter,
                 proc, status, result, signals, sigAt>>

\* toggle_on, line 61: the ON write returns, and main enters the loop at
\* get_dominant_colour(), or raises
toggle_on_return(ok) ==
  /\ proc = "running" /\ pc = "await_on"
  /\ IF ok
       THEN /\ pc' = "capture"
            /\ log' = Append(log, Ev("ON", "main", "ok"))
            /\ exc' = exc
       ELSE /\ Raise
            /\ log' = Append(log, Ev("ON", "main", "err"))
  /\ UNCHANGED <<characteristic_uuid, dominant_color, frame, client, conn, tpc, tasks, iter, proc,
                 status, result, signals, sigAt>>

\* a loop that skips the iteration when the capture raises
get_dominant_colour_skipped(ok) ==
  /\ proc = "running" /\ pc = "capture"
  /\ iter < MaxIter
  /\ IF ok
       THEN /\ pc' = "await_colour"
            /\ iter' = iter + 1
            /\ log' = Append(log, Ev("COLOUR", "main", "call"))
       ELSE /\ pc' = "sleep_loop"
            /\ iter' = iter
            /\ log' = Append(log, Ev("capture", "main", "err"))
  /\ UNCHANGED <<characteristic_uuid, dominant_color, frame, client, conn, exc, tpc, tasks, proc,
                 status, result, signals, sigAt>>

\* main, line 142: get_dominant_colour() returns the hex string, and
\* send_colour_to_device issues the colour write, or raises
get_dominant_colour(ok) ==
  /\ proc = "running" /\ pc = "capture"
  /\ iter < MaxIter
  /\ IF ok
       THEN /\ pc' = "await_colour"
            /\ iter' = iter + 1
            /\ log' = Append(log, Ev("COLOUR", "main", "call"))
            /\ exc' = exc
       ELSE /\ Raise
            /\ iter' = iter
            /\ log' = Append(log, Ev("capture", "main", "err"))
  /\ UNCHANGED <<characteristic_uuid, dominant_color, frame, client, conn, tpc, tasks, proc, status,
                 result, signals, sigAt>>

\* a loop that swallows the failure and goes on to the sleep
AfterColourFailureSwallowed == "sleep_loop"

\* where main continues when the colour write of line 142 raises: the
\* while loop is inside the try block, so the except clause of line 147
AfterColourFailure == "handler"

\* send_colour_to_device, line 58: the colour write returns, and main goes
\* to time.sleep(0.1), or raises
send_colour_to_device_return(ok) ==
  /\ proc = "running" /\ pc = "await_colour"
  /\ IF ok
       THEN /\ pc' = "sleep_loop"
            /\ log' = Append(log, Ev("COLOUR", "main", "ok"))
            /\ exc' = exc
       ELSE /\ pc' = AfterColourFailure
            /\ exc' = IF AfterColourFailure = "handler" THEN "Exception" ELSE exc
            /\ log' = Append(log, Ev("COLOUR", "main", "err"))
  /\ UNCHANGED <<characteristic_uuid, dominant_color, frame, client, conn, tpc, tasks, iter, proc,
                 status, result, signals, sigAt>>

\* main, line 144: time.sleep(0.1) ends and the loop starts over
main_loop_sleep ==
  /\ proc = "running" /\ pc = "sleep_loop"
  /\ pc' = "capture"
  /\ UNCHANGED <<characteristic_uuid, dominant_color, frame, client, conn, exc, tpc, tasks, log,
                 iter, proc, status, result, signals, sigAt>>

\* an except clause that goes back to the loop after printing the error
main_except_retry ==
  /\ proc = "running" /\ pc = "handler" /\ exc = "Exception"
  /\ pc' = "capture"
  /\ exc' = "none"
  /\ log' = Append(log, Ev("except", "main", "ok"))
  /\ UNCHANGED <<characteristic_uuid, dominant_color, frame, client, conn,
                 tpc, tasks, iter, proc, status, result, signals, sigAt>>

\* main, lines 147-148: `except Exception` prints the error; the exception
\* is handled and control falls into the finally block
main_except ==
  /\ proc = "running" /\ pc = "handler" /\ exc = "Exception"
  /\ pc' = "finally"
  /\ exc' = "none"
  /\ log' = Append(log, Ev("except", "main", "ok"))
  /\ UNCHANGED <<characteristic_uuid, dominant_color, frame, client, conn, tpc, tasks, iter, proc,
                 status, result, signals, sigAt>>

\* a failed connect that still leaves a client for the finally block
ClientReadNeverRaises == FALSE

\* main, line 150: `client` is read in the finally block; it is a local of
\* main that line 124 binds only when init_client returns, so the read
\* raises UnboundLocalError after a failed connect
ClientReadRaises == client = "unbound"

\* main, lines 149-151 with on_exit (71-72) and disconnect_client (33-37):
\* reading an unbound client raises UnboundLocalError out of main; else
\* on_exit(client) runs up to the first await of disconnect_client
main_finally ==
  /\ proc = "running" /\ pc = "finally"
  /\ IF ClientReadRaises
       THEN /\ pc' = "done"
            /\ result' = "raised"
            /\ exc' = "Exception"
            /\ log' = log
       ELSE /\ pc' = "fin_await_" \o disconnect_client_next
            /\ log' = log \o <<Ev("on_exit", "main", "call"),
                               disconnect_client_first("main")>>
            /\ UNCHANGED <<result, exc>>
  /\ UNCHANGED <<characteristic_uuid, dominant_color, frame, client, conn, tpc, tasks, iter, proc,
                 status, signals, sigAt>>

\* the event loop runs its ready callbacks in the order they were
\* scheduled: the first step of the task that sigterm_handler created (line
\* 116) is queued before main suspends in the finally block, so it runs
\* before any BLE call of main's on_exit can return
MainCanResume == tpc # "ready"

\* disconnect_client called from main's on_exit, line 37: toggle_off's write
\* returns, and line 38 calls client.disconnect(); or it raises, and the
\* exception leaves disconnect_client, on_exit and main
on_exit_off_return(ok) ==
  /\ proc = "running" /\ pc = "fin_await_off"
  /\ MainCanResume
  /\ IF ok
       THEN /\ pc' = "fin_await_disc"
            /\ log' = log \o <<Ev("OFF", "main", "ok"),
                               Ev("disconnect", "main", "call")>>
            /\ UNCHANGED <<result, exc>>
       ELSE /\ pc' = "done"
            /\ result' = "raised"
            /\ exc' = "Exception"
            /\ log' = Append(log, Ev("OFF", "main", "err"))
  /\ UNCHANGED <<characteristic_uuid, dominant_color, frame, client, conn, tpc, tasks, iter, proc,
                 status, signals, sigAt>>

\* disconnect_client called from main's on_exit, lines 38-40 and 73:
\* client.disconnect() returns and the finally block ends, re-raising a
\* SystemExit in flight or letting main return; or it raises out of main
on_exit_disconnect_return(ok) ==
  /\ proc = "running" /\ pc = "fin_await_disc"
  /\ MainCanResume
  /\ pc' = "done"
  /\ IF ok
       THEN /\ conn' = "closed"
            /\ log' = Append(log, Ev("disconnect", "main", "ok"))
            /\ result' = IF exc = "SystemExit" THEN "SystemExit" ELSE "returned"
            /\ exc' = exc
       ELSE /\ conn' = conn
            /\ log' = Append(log, Ev("disconnect", "main", "err"))
            /\ result' = "raised"
            /\ exc' = "Exception"
  /\ UNCHANGED <<characteristic_uuid, dominant_color, frame, client, tpc, tasks, iter, proc, status,
                 signals, sigAt>>

\* sigterm_handler, lines 114-117, run while main is inside a blocking call
\* (time.sleep or get_dominant_colour, all after client is bound): it
\* schedules on_exit(client) as a task, and sys.exit(1) raises SystemExit at
\* the blocking call; `except Exception` does not catch it, finally runs
sigterm_handler_in_main ==
  /\ proc = "running" /\ pc \in BlockingPcs
  /\ pc' = "finally"
  /\ exc' = "SystemExit"
  /\ tpc' = "ready"
  /\ tasks' = tasks + 1
  /\ signals' = signals + 1
  /\ sigAt' = IF signals = 0 THEN pc ELSE sigAt
  /\ log' = Append(log, Ev("SIGINT", "handler", "call"))
  /\ UNCHANGED <<characteristic_uuid, dominant_color, frame, client, conn, iter, proc, status, result>>

\* what the destroyed coroutine main does when the interpreter finalizes it
\* while it is suspended in the try body: GeneratorExit runs the finally
\* block, whose on_exit(client) gets as far as the first BLE call and no
\* further (lines 149-151, 71-72, 33-38); an unbound client raises instead
Finalize(gc) ==
  IF gc /\ client = "bound" /\ pc \notin FinallyPcs
    THEN <<Ev("on_exit", "gc", "call"), disconnect_client_first("gc")>>
    ELSE <<>>

\* sigterm_handler, lines 114-117, run while main is suspended in an await,
\* that is, from inside the event loop: with client unbound, reading it
\* raises NameError; else the task is created and sys.exit(1) raises
\* SystemExit.  Either exception leaves run_until_complete (line 159) and
\* ends the process with status 1; neither main nor any task is resumed.
sigterm_handler_in_loop(gc) ==
  /\ proc = "running" /\ pc \in AwaitPcs
  /\ proc' = "exited"
  /\ status' = 1
  /\ result' = "destroyed"
  /\ signals' = signals + 1
  /\ sigAt' = IF signals = 0 THEN pc ELSE sigAt
  /\ tasks' = IF client = "bound" THEN tasks + 1 ELSE tasks
  /\ tpc' = IF client = "bound" /\ tpc = "none" THEN "ready" ELSE tpc
  /\ log' = Append(log, Ev("SIGINT", "handler", "call")) \o Finalize(gc)
  /\ UNCHANGED <<characteristic_uuid, dominant_color, frame, pc, client, conn, exc, iter>>

\* the event loop runs a task only while main is suspended, or after main
\* raised and before run_until_complete stops the loop
TaskCanRun ==
  /\ proc = "running"
  /\ \/ pc \in AwaitPcs
     \/ pc = "done" /\ result = "raised"

\* the task of line 116 starts: on_exit(client) up to the first await of
\* disconnect_client
task_on_exit ==
  /\ TaskCanRun /\ tpc = "ready"
  /\ tpc' = "await_" \o disconnect_client_next
  /\ log' = log \o <<Ev("on_exit", "task", "call"),
                     disconnect_client_first("task")>>
  /\ UNCHANGED <<characteristic_uuid, dominant_color, frame, pc, client, conn, exc, tasks, iter,
                 proc, status, result, signals, sigAt>>

\* disconnect_client in the task, line 37: toggle_off's write returns, and
\* line 38 calls client.disconnect(), or raises and ends the task
task_off_return(ok) ==
  /\ TaskCanRun /\ tpc = "await_off"
  /\ IF ok
       THEN /\ tpc' = "await_disc"
            /\ log' = log \o <<Ev("OFF", "task", "ok"),
                               Ev("disconnect", "task", "call")>>
       ELSE /\ tpc' = "failed"
            /\ log' = Append(log, Ev("OFF", "task", "err"))
  /\ UNCHANGED <<characteristic_uuid, dominant_color, frame, pc, client, conn, exc, tasks, iter,
                 proc, status, result, signals, sigAt>>

\* disconnect_client in the task, lines 38-40: client.disconnect() returns
\* or raises, and the task ends
task_disconnect_return(ok) ==
  /\ TaskCanRun /\ tpc = "await_disc"
  /\ IF ok
       THEN /\ tpc' = "done"
            /\ conn' = "closed"
            /\ log' = Append(log, Ev("disconnect", "task", "ok"))
       ELSE /\ tpc' = "failed"
            /\ conn' = conn
            /\ log' = Append(log, Ev("disconnect", "task", "err"))
  /\ UNCHANGED <<characteristic_uuid, dominant_color, frame, pc, client, exc, tasks, iter, proc,
                 status, result, signals, sigAt>>

\* a run_main that exits with status 1 however main ended
ExitStatusAlwaysOne(r) == IF r = "returned" THEN 1 ELSE 1

\* exit status of the process for each way main can end: run_main returns
\* after loop.close() when main returned; an exception or SystemExit(1)
\* leaving run_until_complete ends the interpreter with status 1
ExitStatus(r) == IF r = "returned" THEN 0 ELSE 1

\* run_main, lines 158-160: main is done, run_until_complete returns or
\* raises, and the process ends
run_main ==
  /\ proc = "running" /\ pc = "done"
  /\ proc' = "exited"
  /\ status' = ExitStatus(result)
  /\ UNCHANGED <<characteristic_uuid, dominant_color, frame, pc, client, conn, exc, tpc, tasks, log,
                 iter, result, signals, sigAt>>

Next ==
  \/ main_init_client
  \/ \E ok \in BOOLEAN : init_client_return(ok)
  \/ \E ok \in BOOLEAN : get_characteristics_services(ok)
  \/ \E ok \in BOOLEAN : get_characteristics_off(ok)
  \/ \E ok \in BOOLEAN : get_characteristics_disconnect(ok)
  \/ main_settle
  \/ \E ok \in BOOLEAN : toggle_on_return(ok)
  \/ \E ok \in BOOLEAN : get_dominant_colour(ok)
  \/ \E ok \in BOOLEAN : send_colour_to_device_return(ok)
  \/ main_loop_sleep
  \/ main_except
  \/ main_finally
  \/ \E ok \in BOOLEAN : on_exit_off_return(ok)
  \/ \E ok \in BOOLEAN : on_exit_disconnect_return(ok)
  \/ sigterm_handler_in_main
  \/ \E gc \in BOOLEAN : sigterm_handler_in_loop(gc)
  \/ task_on_exit
  \/ \E ok \in BOOLEAN : task_off_return(ok)
  \/ \E ok \in BOOLEAN : task_disconnect_return(ok)
  \/ run_main

Spec == Init /\ [][Next]_vars

\* the steps of the program itself: every action but the delivery of a
\* signal, which nothing obliges to happen
ProgramNext ==
  \/ main_init_client
  \/ \E ok \in BOOLEAN : init_client_return(ok)
  \/ \E ok \in BOOLEAN : get_characteristics_services(ok)
  \/ \E ok \in BOOLEAN : get_characteristics_off(ok)
  \/ \E ok \in BOOLEAN : get_characteristics_disconnect(ok)
  \/ main_settle
  \/ \E ok \in BOOLEAN : toggle_on_return(ok)
  \/ \E ok \in BOOLEAN : get_dominant_colour(ok)
  \/ \E ok \in BOOLEAN : send_colour_to_device_return(ok)
  \/ main_loop_sleep
  \/ main_except
  \/ main_finally
  \/ \E ok \in BOOLEAN : on_exit_off_return(ok)
  \/ \E ok \in BOOLEAN : on_exit_disconnect_return(ok)
  \/ task_on_exit
  \/ \E ok \in BOOLEAN : task_off_return(ok)
  \/ \E ok \in BOOLEAN : task_disconnect_return(ok)
  \/ run_main

\* the event loop of run_main keeps running whatever is ready, and every
\* BLE call and blocking call eventually returns or raises
LiveSpec == Spec /\ WF_vars(ProgramNext)

(***************************************************************************)
(* The command encoder: the hex strings of lines 20-21, 58 and 108 and     *)
(* bytes.fromhex.  A hex string is a sequence of one-character strings, a  *)
(* frame is a sequence of bytes.                                           *)
(***************************************************************************)

\* GATT writes that one run of the encoder specification issues
MaxWrites == 3

HexDigits == <<"0", "1", "2", "3", "4", "5", "6", "7",
               "8", "9", "a", "b", "c", "d", "e", "f">>

\* format(n, "x"): lower-case hexadecimal digits, no leading zero
RECURSIVE ToHex(_)
ToHex(n) ==
  IF n < 16
    THEN <<HexDigits[n + 1]>>
    ELSE ToHex(n \div 16) \o <<HexDigits[(n % 16) + 1]>>

\* a format without the zero padding, "{:x}"
FormatX(n) == ToHex(n)

\* "{:02x}".format(n), line 108: padded with zeros to a width of two
Format02x(n) == IF Len(ToHex(n)) < 2 THEN <<"0">> \o ToHex(n) ELSE ToHex(n)

\* get_dominant_colour's return value, line 108
dominant_hex(c) == Format02x(c[1]) \o Format02x(c[2]) \o Format02x(c[3])

HexVal(ch) == CHOOSE v \in 0..15 : HexDigits[v + 1] = ch

\* bytes.fromhex: one byte for every two digits; a string of odd length
\* raises ValueError and no bytes are produced
fromhex(h) ==
  IF Len(h) % 2 = 1
    THEN <<>>
    ELSE [i \in 1..(Len(h) \div 2) |->
            16 * HexVal(h[2 * i - 1]) + HexVal(h[2 * i])]

\* lines 20-21
ON_HEX == <<"7", "e", "0", "4", "0", "4", "f", "0", "0", "0", "0", "1",
            "f", "f", "0", "0", "e", "f">>
OFF_HEX == <<"7", "e", "0", "4", "0", "4", "0", "0", "0", "0", "0", "0",
             "f", "f", "0", "0", "e", "f">>

\* the f-string of line 58: "7e070503" + value + "10ef"
colour_hex(value) ==
  <<"7", "e", "0", "7", "0", "5", "0", "3">> \o value \o <<"1", "0", "e", "f">>

\* the colours the encoder is run on: every value of each channel, and
\* every combination of four sample values (zero, one digit, two digits)
SampleChannels == {0, 10, 128, 255}
Colours ==
  {<<r, g, b>> : r \in SampleChannels, g \in SampleChannels,
                 b \in SampleChannels}
  \cup {<<v, 0, 0>> : v \in 0..255}
  \cup {<<0, v, 0>> : v \in 0..255}
  \cup {<<0, 0, v>> : v \in 0..255}

\* the encoder specification starts connected, with the configured UUID,
\* and with the dominant colour of the screen drawn from Colours
EncInit ==
  /\ characteristic_uuid = UuidSet
  /\ pc = "start"
  /\ client = "bound"
  /\ conn = "open"
  /\ exc = "none"
  /\ tpc = "none"
  /\ tasks = 0
  /\ log = <<>>
  /\ iter = 0
  /\ proc = "running"
  /\ status = -1
  /\ result = "none"
  /\ signals = 0
  /\ sigAt = "none"
  /\ dominant_color \in Colours
  /\ frame = <<>>

\* send_colour_to_device(client, uuid, get_dominant_colour()), lines 58 and
\* 108: the bytes handed to client.write_gatt_char
send_colour_to_device ==
  /\ Len(log) < MaxWrites
  /\ frame' = fromhex(colour_hex(dominant_hex(dominant_color)))
  /\ log' = Append(log, Ev("COLOUR", "main", "call"))
  /\ UNCHANGED <<characteristic_uuid, pc, client, conn, exc, tpc, tasks,
                 iter, proc, status, result, signals, sigAt, dominant_color>>

\* toggle_on, line 61
toggle_on ==
  /\ Len(log) < MaxWrites
  /\ frame' = fromhex(ON_HEX)
  /\ log' = Append(log, Ev("ON", "main", "call"))
  /\ UNCHANGED <<characteristic_uuid, pc, client, conn, exc, tpc, tasks,
                 iter, proc, status, result, signals, sigAt, dominant_color>>

\* a toggle_off that sends the ON command
toggle_off_pasted ==
  /\ Len(log) < MaxWrites
  /\ frame' = fromhex(ON_HEX)
  /\ log' = Append(log, Ev("OFF", "main", "call"))
  /\ UNCHANGED <<characteristic_uuid, pc, client, conn, exc, tpc, tasks,
                 iter, proc, status, result, signals, sigAt, dominant_color>>

\* toggle_off, line 65
toggle_off ==
  /\ Len(log) < MaxWrites
  /\ frame' = fromhex(OFF_HEX)
  /\ log' = Append(log, Ev("OFF", "main", "call"))
  /\ UNCHANGED <<characteristic_uuid, pc, client, conn, exc, tpc, tasks,
                 iter, proc, status, result, signals, sigAt, dominant_color>>

EncNext ==
  \/ send_colour_to_device
  \/ toggle_on
  \/ toggle_off

EncSpec == EncInit /\ [][EncNext]_vars

(***************************************************************************)
(* Reading the log                                                         *)
(***************************************************************************)
Writes == {"ON", "COLOUR", "OFF"}

\* indices of the calls of one operation, and of all GATT writes
Calls(op) == {i \in DOMAIN log : log[i].op = op /\ log[i].ph = "call"}
WriteCalls == {i \in DOMAIN log : log[i].op \in Writes /\ log[i].ph = "call"}
Has(op, ph) == \E i \in DOMAIN log : log[i].op = op /\ log[i].ph = ph
HasBefore(op, ph, i) ==
  \E k \in DOMAIN log : k < i /\ log[k].op = op /\ log[k].ph = ph

FirstWrite == CHOOSE i \in WriteCalls : \A j \in WriteCalls : i <= j
LastWrite == CHOOSE i \in WriteCalls : \A j \in WriteCalls : j <= i

\* the run reached RUNNING: connect and the ON write succeeded
ReachedRunning == Has("ON", "ok")

\* positions of main in the RUNNING loop, and after discovery in startup
RunningPcs == {"capture", "await_colour", "sleep_loop"}
ShutdownPcs == {"handler", "finally", "fin_await_off", "fin_await_disc", "done"}

(***************************************************************************)
(* Claims                                                                  *)
(***************************************************************************)

\* C1: a run that reached RUNNING, with the configured UUID, ends with
\* exactly one OFF write attempt, which is the last write attempt and is
\* followed by a disconnect call.
C1_ShutdownEndsWithOneOff ==
  (proc = "exited" /\ characteristic_uuid = UuidSet /\ ReachedRunning) =>
    /\ Cardinality(Calls("OFF")) = 1
    /\ log[LastWrite].op = "OFF"
    /\ \E d \in Calls("disconnect") : d > LastWrite

C3_FailedConnectNoWrite ==
  Has("connect", "err") =>
    /\ WriteCalls = {}
    /\ pc \notin RunningPcs
    /\ ~ReachedRunning

C3_Witness ==
  /\ Has("connect", "err")
  /\ proc = "exited"

\* C4: a run with the configured UUID whose connect succeeded has called
\* client.disconnect exactly once when the process exits.
C4_ExactlyOneDisconnect ==
  (proc = "exited" /\ characteristic_uuid = UuidSet /\ Has("connect", "ok")) =>
    Cardinality(Calls("disconnect")) = 1

\* C5: when the OFF write of main's shutdown routine has failed in a run
\* with the configured UUID and without interrupt, and main is done, client.disconnect has been called
\* after the failed write.
C5_DisconnectAfterFailedOff ==
  \A i \in DOMAIN log :
    (/\ pc = "done"
     /\ signals = 0
     /\ characteristic_uuid = UuidSet
     /\ log[i] = Ev("OFF", "main", "err")
     /\ HasBefore("on_exit", "call", i)) =>
      \E j \in Calls("disconnect") : j > i

\* C6: the shutdown routine on_exit is started at most once in a run: the
\* task of the signal handler and the on_exit of main's finally block never
\* both run.
C6_ShutdownStartedOnce ==
  Cardinality({i \in Calls("on_exit") : log[i].by \in {"main", "task"}}) <= 1

\* C7: with the configured UUID, a run interrupted during the settle delay,
\* an awaited ON or colour write, the capture or the sleep of the loop has
\* attempted an OFF write and then a disconnect when the process exits.
C7_InterruptRunsShutdown ==
  (/\ proc = "exited"
   /\ characteristic_uuid = UuidSet
   /\ sigAt \in {"sleep_settle", "await_on", "capture", "await_colour",
                 "sleep_loop"}) =>
    \E i \in Calls("OFF") : \E j \in Calls("disconnect") : i < j

\* C8 as stated, for the configured UUID: the first write attempted is ON,
\* every ON write follows the settle delay, and every colour write follows
\* a successful ON write.
C8_StartupOrderAlways ==
  /\ (characteristic_uuid = UuidSet /\ WriteCalls # {}) =>
       log[FirstWrite].op = "ON"
  /\ \A i \in Calls("ON") : HasBefore("settle", "ok", i)
  /\ \A i \in Calls("COLOUR") : HasBefore("ON", "ok", i)

\* C8 amended: every ON write follows the settle delay and every colour
\* write follows a successful ON write; the first write attempted is ON,
\* or it is the OFF write of a shutdown routine, which happens only after
\* an interrupt or on the characteristic-discovery path.
C8_StartupOrder ==
  /\ WriteCalls # {} =>
       \/ log[FirstWrite].op = "ON"
       \/ /\ log[FirstWrite].op = "OFF"
          /\ \/ HasBefore("SIGINT", "call", FirstWrite)
             \/ HasBefore("discover", "call", FirstWrite)
  /\ \A i \in Calls("ON") : HasBefore("settle", "ok", i)
  /\ \A i \in Calls("COLOUR") : HasBefore("ON", "ok", i)

C8_Witness ==
  /\ characteristic_uuid = UuidSet
  /\ Has("COLOUR", "call")
  /\ log[FirstWrite].op = "ON"

\* C9: with an unknown characteristic, once main is past discovery (settle
\* delay, ON write, RUNNING loop) the connection is still open and
\* client.disconnect has not been called.
C9_DiscoveryKeepsConnection ==
  (UuidUnknown /\ pc \in {"sleep_settle", "await_on"} \cup RunningPcs) =>
    /\ conn = "open"
    /\ Calls("disconnect") = {}

\* C10 as stated: a run with the configured UUID that ended after a failure
\* (a BLE call or the capture raised) exits with a non-zero status.
C10_ErrorExitsNonZero ==
  (/\ proc = "exited"
   /\ characteristic_uuid = UuidSet
   /\ \E i \in DOMAIN log : log[i].ph = "err") => status # 0

\* C10 amended: the process exits with status 0 exactly when a failure was
\* caught by main's except clause, no interrupt was delivered, and the
\* shutdown routine ran to the return of client.disconnect; it exits with
\* status 1 otherwise, in particular after a failed connect or an interrupt.
C10_ExitStatus ==
  proc = "exited" =>
    /\ status \in {0, 1}
    /\ status = 0 <=>
         /\ signals = 0
         /\ Has("except", "ok")
         /\ log[Len(log)] = Ev("disconnect", "main", "ok")
    /\ (Has("connect", "err") \/ signals > 0) => status = 1

C10_Witness ==
  /\ proc = "exited"
  /\ status = 0
  /\ Has("COLOUR", "err")

\* C11: after a failed connect, main's cleanup (the finally block and the
\* disconnect logic) ends without raising: main returns.
C11_CleanupAfterFailedConnect ==
  (Has("connect", "err") /\ pc = "done") => result = "returned"

LastOp == log[Len(log)].op

\* C13 as stated: the colour frame is 11 bytes long, begins with
\* 7E 07 05 03, ends with 10 EF and carries r, g, b as bytes 4-6.
C13_ColourFrameElevenBytes ==
  (log # <<>> /\ LastOp = "COLOUR") =>
    /\ Len(frame) = 11
    /\ SubSeq(frame, 1, 4) = <<126, 7, 5, 3>>
    /\ SubSeq(frame, 5, 7) = dominant_color
    /\ SubSeq(frame, Len(frame) - 1, Len(frame)) = <<16, 239>>

\* C13 amended: the colour frame is 9 bytes long: 7E 07 05 03, then r, g,
\* b as bytes 4-6 (counted from 0), then 10 EF.
C13_ColourFrame ==
  (log # <<>> /\ LastOp = "COLOUR") =>
    /\ Len(frame) = 9
    /\ SubSeq(frame, 1, 4) = <<126, 7, 5, 3>>
    /\ SubSeq(frame, 5, 7) = dominant_color
    /\ SubSeq(frame, 8, 9) = <<16, 239>>

C13_Witness ==
  /\ log # <<>> /\ LastOp = "COLOUR"
  /\ dominant_color = <<255, 10, 128>>
  /\ frame = <<126, 7, 5, 3, 255, 10, 128, 16, 239>>

\* C14: whatever was written before, toggle_on writes the 9 bytes
\* 7E 04 04 F0 00 01 FF 00 EF and toggle_off the 9 bytes
\* 7E 04 04 00 00 00 FF 00 EF, and every frame written, the colour frame
\* included, starts with 7E and ends with EF.
C14_OnOffConstant ==
  log # <<>> =>
    /\ LastOp = "ON" => frame = <<126, 4, 4, 240, 0, 1, 255, 0, 239>>
    /\ LastOp = "OFF" => frame = <<126, 4, 4, 0, 0, 0, 255, 0, 239>>
    /\ frame # <<>> /\ frame[1] = 126 /\ frame[Len(frame)] = 239

C14_Witness ==
  /\ Len(log) = 3
  /\ log[1].op = "OFF" /\ log[2].op = "COLOUR" /\ log[3].op = "OFF"
  /\ frame = <<126, 4, 4, 0, 0, 0, 255, 0, 239>>

\* C15: on the characteristic-discovery path with characteristic_uuid None,
\* no GATT write (ON, colour or OFF) is attempted on the client after
\* client.disconnect has been called on it.
C15_NoWriteAfterDisconnect ==
  characteristic_uuid = UuidNone =>
    \A i \in WriteCalls : \A j \in Calls("disconnect") : i < j

\* log positions of a failure or an interrupt during RUNNING
Disturbances ==
  {i \in DOMAIN log : /\ log[i].ph = "err" \/ log[i].op = "SIGINT"
                      /\ HasBefore("ON", "ok", i)}

\* C16: once a failure or an interrupt has occurred during RUNNING no
\* further colour write is attempted, and the run eventually reaches
\* process exit; while no failure and no interrupt has occurred, main stays
\* in the RUNNING loop and issues one colour write per iteration, each
\* completed before the next.
C16_FailureLeadsToExit ==
  /\ [](\A i \in Disturbances : \A j \in Calls("COLOUR") : j < i)
  /\ [](ReachedRunning /\ Disturbances = {} =>
          /\ proc = "running" /\ pc \in RunningPcs
          /\ iter = Cardinality(Calls("COLOUR"))
          /\ Cardinality(Calls("COLOUR")) =
               Cardinality({i \in DOMAIN log : log[i] = Ev("COLOUR", "main", "ok")})
               + (IF pc = "await_colour" THEN 1 ELSE 0))
  /\ (Disturbances # {}) ~> (proc = "exited")

C16_Witness ==
  /\ proc = "exited"
  /\ Disturbances # {}
  /\ sigAt = "sleep_loop"
  /\ result = "SystemExit"
  /\ iter = 1
====
